---------------------------- MODULE Spec2Model ----------------------------
(***************************************************************************)
(* Multiple windows for selected Anki dialogs: the patched dialog-open     *)
(* function, its configuration lookup and the list of extra instances.     *)
(* Modelled from src/__init__.py.                                          *)
(*                                                                         *)
(* src/__init__.py lines 60-63 hold the leftover header of an older        *)
(* _resolve_creator(manager, name); the function modelled here is the one  *)
(* whose body follows (lines 63-95), which is the one line 118 calls.      *)
(* DialogManager is the class of the host object `dialogs`.                *)
(***************************************************************************)
EXTENDS Naturals, Integers, Sequences, FiniteSets, TLC

(***************************************************************************)
(* Bounds of the model.                                                    *)
(***************************************************************************)
\* number of calls of a creator made by the multi-instance path
MaxOpens == 2

(***************************************************************************)
(* Values of the environment.                                              *)
(***************************************************************************)
\* the host object `dialogs` (the DialogManager instance), as a value that
\* can be passed in the place of a dialog name
Manager == "<dialogs>"

\* dialog names callers ask for
DialogNames == {"Browser", "About", "Broken", "Ghost"}

\* the argument a caller passes after the name
CallerArgs == {"mw", "card"}

\* Python's None, where a creator is expected
None == "None"

\* a stored creator that is not callable
NotCallable == "<not callable>"

\* the callables the host registers as creators (the dialog classes)
Creators == {"Browser", "About"}

callable(c) == c \in Creators

\* no instance (Python's None where an instance is expected)
NoInstance == 0

\* the instances the multi-instance path can obtain from creators
Instances == 1..MaxOpens

\* the single instance the host keeps for a registered name
HostInstance(name) ==
    CASE name = "Browser" -> 0 - 1
      [] name = "About"   -> 0 - 2
      [] OTHER            -> 0 - 3

(***************************************************************************)
(* The kinds of object a creator may return, by the attributes the add-on  *)
(* looks at:                                                               *)
(*   "window"  a Qt window: close, and a destroyed signal that connects    *)
(*   "stub"    close, and a destroyed attribute that is no signal: connect *)
(*             raises, and nothing ever fires                              *)
(*   "plain"   close, no destroyed attribute                               *)
(*   "bare"    a destroyed signal that connects, no close attribute        *)
(***************************************************************************)
WidgetKinds == {"window", "stub", "plain", "bare"}

\* hasattr(instance, "close")
HasClose(kind) == kind \in {"window", "stub", "plain"}

\* getattr(instance, "destroyed", None) is not None
HasDestroyed(kind) == kind \in {"window", "stub", "bare"}

\* qconnect(destroyed, on_destroyed) returns without raising
ConnectSucceeds(kind) == kind \in {"window", "bare"}

VARIABLES
    storage,              \* the add-on's stored config: its "multiple" entry
    dialogs,              \* dialogs._dialogs: the host's registry
    _open_multi_dialogs,  \* the list of extra instances
    widget,               \* the state of every instance a creator returned
    patch,                \* DialogManager.open, the saved original, _original_open
    opens,                \* how often the multi-instance path called a creator
    quiet,                \* no close, destroyed signal or reload has happened yet
    call                  \* the last operation: what it was given and what it did

vars == <<storage, dialogs, _open_multi_dialogs, widget, patch, opens, quiet, call>>


(***************************************************************************)
(* Config handling.                                                        *)
(***************************************************************************)
\* the keys a stored "multiple" map may hold
ConfigKeys == {"default", "About", "Browser"}

\* the JSON values a stored flag may have
JsonValues == {"true", "false", "1", "0"}

\* Python's bool(value)
bool(v) == v \in {"true", "1"}

\* the map _get_config sets up on the first run
Defaults ==
    [k \in {"default", "About", "Preferences"} |->
        IF k = "default" THEN "true" ELSE "false"]

\* a stored config whose "multiple" entry is `m`
Stored(m) == [present |-> TRUE, multiple |-> m]

\* a stored config with no "multiple" entry (also: no stored config at all)
NoMultiple == [present |-> FALSE, multiple |-> << >>]

\* _get_config with a fault: the config is written back on every lookup
GetConfigAlwaysWrites ==
    [cfg |-> IF storage.present THEN storage ELSE Stored(Defaults),
     wrote |-> TRUE]

\* _get_config(): the config it returns, and whether it called writeConfig
\* (with that config)
_get_config ==
    IF ~storage.present
    THEN [cfg |-> Stored(Defaults), wrote |-> TRUE]
    ELSE [cfg |-> storage, wrote |-> FALSE]

\* should_be_multiple with a fault: the default flag takes precedence
ShouldBeMultipleDefaultFirst(name) ==
    LET multiple == _get_config.cfg.multiple
    IN  IF "default" \in DOMAIN multiple THEN bool(multiple["default"])
        ELSE IF name \in DOMAIN multiple THEN bool(multiple[name])
        ELSE TRUE

\* should_be_multiple(name)
should_be_multiple(name) ==
    LET multiple == _get_config.cfg.multiple
    IN  IF name \in DOMAIN multiple THEN bool(multiple[name])
        ELSE IF "default" \in DOMAIN multiple THEN bool(multiple["default"])
        ELSE TRUE

(***************************************************************************)
(* The host's registry and the creator lookup.                             *)
(***************************************************************************)
\* dialogs._dialogs as the host sets it up: entries of the classic tuple
\* layout, of the dataclass layout (creator, or creator_func) and of a layout
\* _resolve_creator does not know (a list)
InitialRegistry ==
    [n \in {"Browser", "About", "Broken"} |->
        CASE n = "Browser" -> [layout |-> "tuple", items |-> <<"Browser", NoInstance>>]
          [] n = "About"   -> [layout |-> "object", creator |-> NotCallable,
                               creator_func |-> "About", instance |-> NoInstance]
          [] n = "Broken"  -> [layout |-> "list", items |-> <<"Broken", NoInstance>>]]

\* getattr(entry, attr, None)
getattr(entry, attr) == IF attr \in DOMAIN entry THEN entry[attr] ELSE None

\* the instance the registry holds for an entry
CachedInstance(entry) ==
    IF entry.layout = "object" THEN entry.instance
    ELSE IF Len(entry.items) >= 2 THEN entry.items[2] ELSE NoInstance

\* the creator the registry holds for an entry, whatever the layout
CachedCreator(entry) ==
    IF entry.layout = "object"
    THEN <<entry.creator, entry.creator_func>>
    ELSE IF Len(entry.items) >= 1 THEN <<entry.items[1]>> ELSE << >>

\* the entry with `i` as its instance
WithInstance(entry, i) ==
    IF entry.layout = "object" THEN [entry EXCEPT !.instance = i]
    ELSE IF Len(entry.items) >= 2 THEN [entry EXCEPT !.items[2] = i] ELSE entry

\* _resolve_creator with a fault: creator_func is looked up before creator
ResolveCreatorFuncFirst(name) ==
    IF name \notin DOMAIN dialogs THEN None
    ELSE LET entry == dialogs[name]
         IN  IF entry.layout = "tuple"
             THEN IF Len(entry.items) > 0 /\ callable(entry.items[1])
                  THEN entry.items[1]
                  ELSE None
             ELSE IF callable(getattr(entry, "creator_func"))
                  THEN getattr(entry, "creator_func")
             ELSE IF callable(getattr(entry, "creator"))
                  THEN getattr(entry, "creator")
             ELSE None

\* _resolve_creator(name)
_resolve_creator(name) ==
    IF name \notin DOMAIN dialogs THEN None
    ELSE LET entry == dialogs[name]
         IN  IF entry.layout = "tuple"
             THEN IF Len(entry.items) > 0 /\ callable(entry.items[1])
                  THEN entry.items[1]
                  ELSE None
             ELSE IF callable(getattr(entry, "creator"))
                  THEN getattr(entry, "creator")
             ELSE IF callable(getattr(entry, "creator_func"))
                  THEN getattr(entry, "creator_func")
             ELSE None

(***************************************************************************)
(* Mehrere Instanzen offen halten: the list of extra instances.            *)
(***************************************************************************)
\* instance in list
Contains(list, instance) == \E j \in 1..Len(list) : list[j] = instance

\* how often instance occurs in list
Occurrences(list, instance) ==
    Cardinality({j \in 1..Len(list) : list[j] = instance})

\* list.remove(instance): the list without the first occurrence of instance
ListRemove(list, instance) ==
    LET k == CHOOSE j \in 1..Len(list) :
                /\ list[j] = instance
                /\ \A h \in 1..(j - 1) : list[h] # instance
    IN  SubSeq(list, 1, k - 1) \o SubSeq(list, k + 1, Len(list))

\* _remove_instance with a fault: what follows the instance goes with it
RemoveInstanceAndRest(list, instance) ==
    IF Contains(list, instance)
    THEN LET k == CHOOSE j \in 1..Len(list) :
                      /\ list[j] = instance
                      /\ \A h \in 1..(j - 1) : list[h] # instance
         IN  SubSeq(list, 1, k - 1)
    ELSE list

\* _remove_instance(instance), on the list as it is when called
_remove_instance(list, instance) ==
    IF Contains(list, instance) THEN ListRemove(list, instance) ELSE list

\* n calls of _remove_instance(instance), one after the other
RECURSIVE RemoveTimes(_, _, _)
RemoveTimes(list, instance, n) ==
    IF n = 0 THEN list
    ELSE RemoveTimes(_remove_instance(list, instance), instance, n - 1)

(***************************************************************************)
(* The widgets creators return.                                            *)
(*   cls       the creator that returned the instance (None: not yet)      *)
(*   kind      its kind, one of WidgetKinds                                *)
(*   status    "none", "open", "closed" (no longer shown), "destroyed"     *)
(*   wrappers  how many wrapped_close layers are around its close          *)
(*   flagged   its __multiple_windows_close_wrapped__ attribute            *)
(*   handlers  how many on_destroyed handlers its destroyed signal has     *)
(***************************************************************************)
NoWidget ==
    [cls |-> None, kind |-> "", status |-> "none", wrappers |-> 0,
     flagged |-> FALSE, handlers |-> 0]

\* the widget as a creator returns it: a new one is shown, one returned
\* before is as it was
Returned(w, creator, kind) ==
    IF w.cls = None
    THEN [w EXCEPT !.cls = creator, !.kind = kind, !.status = "open"]
    ELSE w

\* the instances a call of creator may return: the next new one, or a live
\* one the same creator returned before
Returnable(creator) ==
    {i \in Instances :
        \/ /\ widget[i].cls = None
           /\ \A j \in Instances : j < i => widget[j].cls # None
        \/ /\ widget[i].cls = creator
           /\ widget[i].status = "open"}

\* _wrap_close_for_instance with a fault: the wrapped flag is not consulted
WrapCloseEveryTime(w) ==
    IF ~HasClose(w.kind) THEN w
    ELSE [w EXCEPT !.wrappers = @ + 1, !.flagged = TRUE]

\* _wrap_close_for_instance(instance)
_wrap_close_for_instance(w) ==
    IF ~HasClose(w.kind) THEN w
    ELSE IF w.flagged THEN w
    ELSE [w EXCEPT !.wrappers = @ + 1, !.flagged = TRUE]

\* _watch_qobject(instance)
_watch_qobject(w) ==
    IF ~HasDestroyed(w.kind) THEN w
    ELSE IF ConnectSucceeds(w.kind) THEN [w EXCEPT !.handlers = @ + 1]
    ELSE w

(***************************************************************************)
(* The record of the last operation.                                       *)
(*   op        "none", "load", "open", "close", "destroyed"                *)
(*   bound     the open came as dialogs.open(caller, arg)                  *)
(*   caller    the dialog name the caller supplied                         *)
(*   arg       the argument the caller supplied after it                   *)
(*   name      the value _open_patched got as its parameter `name`         *)
(*   args      the values _open_patched got as *args                       *)
(*   hadMap    the stored config had a "multiple" map when looked up       *)
(*   wrote     the lookup called writeConfig                               *)
(*   flag      what should_be_multiple(name) returned                      *)
(*   path      "single", "fallback" or "multi"                             *)
(*   original  the argument lists of the calls of _original_open (for a    *)
(*             close: of original_close)                                   *)
(*   creator   the argument lists of the calls of the resolved creator     *)
(*   origRet   what the original returned, origExc what it raised          *)
(*   ret       what the operation returned, exc what it raised             *)
(*   inst      the instance closed or destroyed                            *)
(***************************************************************************)
NoCall ==
    [op |-> "none", bound |-> FALSE, caller |-> "", arg |-> "", name |-> "",
     args |-> << >>, hadMap |-> FALSE, wrote |-> FALSE, flag |-> FALSE,
     path |-> "", original |-> << >>, creator |-> << >>,
     origRet |-> NoInstance, origExc |-> "", ret |-> NoInstance, exc |-> "",
     inst |-> NoInstance, resolved |-> None,
     origResult |-> None, result |-> None]

(***************************************************************************)
(* Originalfunktion sichern: the saved original open.                      *)
(***************************************************************************)
\* _original_open(*allargs) when it is the host's DialogManager.open, an
\* unbound method (self, name, *args): it returns the one instance the host
\* keeps for name and stores it in the registry.  This host's own open reads
\* entries of the classic layout only.
HostOpen(allargs) ==
    IF allargs[1] # Manager
    THEN [ret |-> NoInstance, exc |-> "AttributeError", registry |-> dialogs]
    ELSE IF Len(allargs) < 2 \/ allargs[2] \notin DOMAIN dialogs
    THEN [ret |-> NoInstance, exc |-> "KeyError", registry |-> dialogs]
    ELSE IF dialogs[allargs[2]].layout # "tuple"
    THEN [ret |-> NoInstance, exc |-> "TypeError", registry |-> dialogs]
    ELSE [ret |-> HostInstance(allargs[2]), exc |-> "",
          registry |-> [dialogs EXCEPT
                           ![allargs[2]] = WithInstance(@, HostInstance(allargs[2]))]]

\* _original_open(*allargs)
_original_open(allargs) ==
    IF patch.original = "host" THEN HostOpen(allargs)
    ELSE [ret |-> NoInstance, exc |-> "RecursionError", registry |-> dialogs]

(***************************************************************************)
(* _open_patched(name, *args)                                              *)
(***************************************************************************)
\* the delegation with a fault: the arguments after the name are dropped
DelegateDropsArgs(seen, path) ==
    LET allargs == <<seen.name>>
        out == _original_open(allargs)
    IN  /\ dialogs' = out.registry
        /\ call' = [seen EXCEPT !.path = path, !.original = <<allargs>>,
                                !.origRet = out.ret, !.origExc = out.exc,
                                !.ret = out.ret, !.exc = out.exc]
        /\ UNCHANGED <<_open_multi_dialogs, widget, opens, quiet>>

\* return _original_open(name, *args)
Delegate(seen, path) ==
    LET allargs == <<seen.name>> \o seen.args
        out == _original_open(allargs)
    IN  /\ dialogs' = out.registry
        /\ call' = [seen EXCEPT !.path = path, !.original = <<allargs>>,
                                !.origRet = out.ret, !.origExc = out.exc,
                                !.ret = out.ret, !.exc = out.exc]
        /\ UNCHANGED <<_open_multi_dialogs, widget, opens, quiet>>

\* the creation with a fault: the new instance is not appended to the list
CreateInstanceUntracked(seen, creator) ==
    \/ /\ opens < MaxOpens
       /\ opens' = opens + 1
       /\ \E instance \in Returnable(creator), kind \in WidgetKinds :
             /\ widget[instance].cls # None => kind = widget[instance].kind
             /\ widget' = [widget EXCEPT ![instance] =
                              _watch_qobject(_wrap_close_for_instance(
                                  Returned(@, creator, kind)))]
             /\ call' = [seen EXCEPT !.path = "multi",
                                     !.creator = <<seen.args>>,
                                     !.ret = instance]
       /\ UNCHANGED <<dialogs, _open_multi_dialogs, quiet>>
    \/ /\ call' = [seen EXCEPT !.path = "multi", !.creator = <<seen.args>>,
                               !.exc = "CreatorError"]
       /\ UNCHANGED <<dialogs, _open_multi_dialogs, widget, opens, quiet>>

\* the creation with a fault: the new instance is stored in the registry as
\* the instance of the name
CreateInstanceCaches(seen, creator) ==
    \/ /\ opens < MaxOpens
       /\ opens' = opens + 1
       /\ \E instance \in Returnable(creator), kind \in WidgetKinds :
             /\ widget[instance].cls # None => kind = widget[instance].kind
             /\ _open_multi_dialogs' = Append(_open_multi_dialogs, instance)
             /\ widget' = [widget EXCEPT ![instance] =
                              _watch_qobject(_wrap_close_for_instance(
                                  Returned(@, creator, kind)))]
             /\ dialogs' = [dialogs EXCEPT ![seen.name] =
                               WithInstance(@, instance)]
             /\ call' = [seen EXCEPT !.path = "multi",
                                     !.creator = <<seen.args>>,
                                     !.ret = instance]
       /\ UNCHANGED quiet
    \/ /\ call' = [seen EXCEPT !.path = "multi", !.creator = <<seen.args>>,
                               !.exc = "CreatorError"]
       /\ UNCHANGED <<dialogs, _open_multi_dialogs, widget, opens, quiet>>

\* instance = creator(*args); the append; the close wrapper; the watch.
\* The creator returns an instance, or raises.
CreateInstance(seen, creator) ==
    \/ /\ opens < MaxOpens
       /\ opens' = opens + 1
       /\ \E instance \in Returnable(creator), kind \in WidgetKinds :
             /\ widget[instance].cls # None => kind = widget[instance].kind
             /\ _open_multi_dialogs' = Append(_open_multi_dialogs, instance)
             /\ widget' = [widget EXCEPT ![instance] =
                              _watch_qobject(_wrap_close_for_instance(
                                  Returned(@, creator, kind)))]
             /\ call' = [seen EXCEPT !.path = "multi",
                                     !.creator = <<seen.args>>,
                                     !.ret = instance]
       /\ UNCHANGED <<dialogs, quiet>>
    \/ /\ call' = [seen EXCEPT !.path = "multi", !.creator = <<seen.args>>,
                               !.exc = "CreatorError"]
       /\ UNCHANGED <<dialogs, _open_multi_dialogs, widget, opens, quiet>>

\* _open_patched with a fault: no fallback, a name without a creator raises
OpenPatchedNoFallback(bound, caller, arg, name, args) ==
    LET got == _get_config
        flag == should_be_multiple(name)
        seen == [NoCall EXCEPT !.op = "open", !.bound = bound,
                               !.caller = caller, !.arg = arg,
                               !.name = name, !.args = args,
                               !.hadMap = storage.present,
                               !.wrote = got.wrote, !.flag = flag]
    IN  /\ storage' = IF got.wrote THEN got.cfg ELSE storage
        /\ IF ~flag
           THEN Delegate(seen, "single")
           ELSE IF _resolve_creator(name) = None
           THEN /\ call' = [seen EXCEPT !.path = "fallback",
                                        !.exc = "KeyError"]
                /\ UNCHANGED <<dialogs, _open_multi_dialogs, widget, opens,
                               quiet>>
           ELSE CreateInstance(seen, _resolve_creator(name))
        /\ UNCHANGED patch

_open_patched(bound, caller, arg, name, args) ==
    LET got == _get_config
        flag == should_be_multiple(name)
        seen == [NoCall EXCEPT !.op = "open", !.bound = bound,
                               !.caller = caller, !.arg = arg,
                               !.name = name, !.args = args,
                               !.hadMap = storage.present,
                               !.wrote = got.wrote, !.flag = flag]
    IN  /\ storage' = IF got.wrote THEN got.cfg ELSE storage
        /\ IF ~flag
           THEN Delegate(seen, "single")
           ELSE IF _resolve_creator(name) = None
           THEN Delegate(seen, "fallback")
           ELSE CreateInstance(seen, _resolve_creator(name))
        /\ UNCHANGED patch

\* DialogManager.open = _open_patched, and the host calls
\* dialogs.open(caller, arg): Python binds the manager object as the first
\* positional argument of the function stored on the class
dialogs_open(caller, arg) ==
    /\ patch.open = "patched"
    /\ _open_patched(TRUE, caller, arg, Manager, <<caller, arg>>)

\* a call that gives the function the dialog name as its first argument, as
\* its signature asks: DialogManager.open(caller, arg) on the class
DialogManager_open(caller, arg) ==
    /\ patch.open = "patched"
    /\ _open_patched(FALSE, caller, arg, caller, <<arg>>)

(***************************************************************************)
(* Closing and destroying an instance.                                     *)
(***************************************************************************)
\* what original_close can do, given the state of the widget
CloseOutcomes(w) ==
    CASE w.status = "open"      -> {"closed", "kept", "raised"}
      [] w.status = "closed"    -> {"closed"}
      [] w.status = "destroyed" -> {"raised"}
      [] OTHER                  -> {}

\* the arguments a caller may give to close
CloseArgs == {<< >>, <<"event">>}

\* what original_close returns
CloseResult(outcome) ==
    CASE outcome = "closed" -> "True"
      [] outcome = "kept"   -> "False"
      [] OTHER              -> None

\* instance.close(*args): every wrapped_close layer calls _remove_instance and
\* then the close it wraps with the same arguments; the innermost is the
\* widget's own close
wrapped_close(instance, args, outcome) ==
    LET w == widget[instance]
    IN  /\ w.cls # None
        /\ HasClose(w.kind)
        /\ outcome \in CloseOutcomes(w)
        /\ _open_multi_dialogs' =
               RemoveTimes(_open_multi_dialogs, instance, w.wrappers)
        /\ widget' = [widget EXCEPT ![instance].status =
                         IF outcome = "closed" THEN "closed" ELSE @]
        /\ call' = [NoCall EXCEPT !.op = "close", !.inst = instance,
                        !.args = args,
                        !.original = <<args>>,
                        !.origResult = CloseResult(outcome),
                        !.result = CloseResult(outcome),
                        !.origExc = IF outcome = "raised" THEN "Error" ELSE "",
                        !.exc = IF outcome = "raised" THEN "Error" ELSE ""]
        /\ quiet' = FALSE
        /\ UNCHANGED <<storage, dialogs, patch, opens>>

\* Qt destroys instance and its destroyed signal fires: every connected
\* on_destroyed runs
on_destroyed(instance) ==
    LET w == widget[instance]
    IN  /\ w.cls # None
        /\ HasDestroyed(w.kind)
        /\ ConnectSucceeds(w.kind)
        /\ w.status \in {"open", "closed"}
        /\ _open_multi_dialogs' =
               RemoveTimes(_open_multi_dialogs, instance, w.handlers)
        /\ widget' = [widget EXCEPT ![instance].status = "destroyed"]
        /\ call' = [NoCall EXCEPT !.op = "destroyed", !.inst = instance]
        /\ quiet' = FALSE
        /\ UNCHANGED <<storage, dialogs, patch, opens>>

(***************************************************************************)
(* The specification.                                                      *)
(***************************************************************************)
\* every stored config the add-on may find: none (the first run), and every
\* map of JSON values over the keys
StoredConfigs ==
    {NoMultiple} \cup
    {Stored(m) : m \in UNION {[K -> JsonValues] : K \in SUBSET ConfigKeys}}

\* two of them: the first run, and a user's map that turns the default off
\* and About on
UsualConfigs ==
    {NoMultiple, Stored([k \in {"default", "About"} |->
                            IF k = "default" THEN "false" ELSE "true"])}

\* the state once the host has set up its registry and loaded the module
Init ==
    /\ storage \in UsualConfigs
    /\ dialogs = InitialRegistry
    /\ _open_multi_dialogs = << >>
    /\ widget = [i \in Instances |-> NoWidget]
    /\ patch = [open |-> "patched", saved |-> "host", original |-> "host"]
    /\ opens = 0
    /\ quiet = TRUE
    /\ call = NoCall

Next ==
    \/ \E caller \in DialogNames, arg \in CallerArgs : dialogs_open(caller, arg)
    \/ \E caller \in DialogNames, arg \in CallerArgs : DialogManager_open(caller, arg)
    \/ \E instance \in Instances, args \in CloseArgs,
          outcome \in {"closed", "kept", "raised"} :
          wrapped_close(instance, args, outcome)
    \/ \E instance \in Instances : on_destroyed(instance)

Spec == Init /\ [][Next]_vars

\* the config lookup alone, over every stored config: calls that give the
\* function a dialog name
InitLookup ==
    /\ storage \in StoredConfigs
    /\ dialogs = InitialRegistry
    /\ _open_multi_dialogs = << >>
    /\ widget = [i \in Instances |-> NoWidget]
    /\ patch = [open |-> "patched", saved |-> "host", original |-> "host"]
    /\ opens = 0
    /\ quiet = TRUE
    /\ call = NoCall

NextLookup ==
    \E caller \in DialogNames, arg \in CallerArgs : DialogManager_open(caller, arg)

SpecLookup == InitLookup /\ [][NextLookup]_vars

\* Loading the add-on module again.
\* the module body with a fault: the open found on the class is saved without
\* looking for an earlier saved one
LoadSavesCurrent ==
    /\ patch' = [open |-> "patched", saved |-> patch.open,
                 original |-> patch.open]
    /\ _open_multi_dialogs' = << >>
    /\ call' = [NoCall EXCEPT !.op = "load"]
    /\ quiet' = FALSE
    /\ UNCHANGED <<storage, dialogs, widget, opens>>

\* the module body runs: the list starts empty, the original open is taken
\* from the attribute saved on the class or, without one, from the class and
\* saved there; then the patch is activated
Load ==
    LET found == patch.saved
        original == IF found = None THEN patch.open ELSE found
    IN  /\ patch' = [open |-> "patched", saved |-> original,
                     original |-> original]
        /\ _open_multi_dialogs' = << >>
        /\ call' = [NoCall EXCEPT !.op = "load"]
        /\ quiet' = FALSE
        /\ UNCHANGED <<storage, dialogs, widget, opens>>

\* the host before the add-on is loaded for the first time
InitReload ==
    /\ storage \in UsualConfigs
    /\ dialogs = InitialRegistry
    /\ _open_multi_dialogs = << >>
    /\ widget = [i \in Instances |-> NoWidget]
    /\ patch = [open |-> "host", saved |-> None, original |-> None]
    /\ opens = 0
    /\ quiet = TRUE
    /\ call = NoCall

NextReload ==
    \/ Load
    \/ \E caller \in DialogNames, arg \in CallerArgs : dialogs_open(caller, arg)
    \/ \E caller \in DialogNames, arg \in CallerArgs :
           DialogManager_open(caller, arg)

SpecReload == InitReload /\ [][NextReload]_vars

\* The creator lookup on its own, over registries whose entries have every
\* layout _resolve_creator distinguishes.
\* what a registry entry can hold where a creator is expected
StoredCreators == Creators \cup {NotCallable, None}

\* tuple entries: empty, creator only, (creator, instance)
TupleEntries ==
    {[layout |-> "tuple", items |-> << >>]}
    \cup {[layout |-> "tuple", items |-> <<c>>] : c \in StoredCreators}
    \cup {[layout |-> "tuple", items |-> <<c, NoInstance>>] : c \in StoredCreators}

\* entries that are objects: each of creator and creator_func is absent or
\* holds a value
ObjectEntries ==
    {[layout |-> "object", instance |-> NoInstance]}
    \cup {[layout |-> "object", instance |-> NoInstance, creator |-> c] :
             c \in StoredCreators}
    \cup {[layout |-> "object", instance |-> NoInstance, creator_func |-> f] :
             f \in StoredCreators}
    \cup {[layout |-> "object", instance |-> NoInstance, creator |-> c,
           creator_func |-> f] : c \in StoredCreators, f \in StoredCreators}

\* entries that are neither: a list
OtherEntries == {[layout |-> "list", items |-> <<"Broken", NoInstance>>]}

RegistryEntries == TupleEntries \cup ObjectEntries \cup OtherEntries

\* the names the registries under test may hold
ResolveNames == {"Browser", "About"}

Registries ==
    UNION {[names -> RegistryEntries] : names \in SUBSET ResolveNames}

\* creator = _resolve_creator(name)
Resolve(name) ==
    /\ call' = [NoCall EXCEPT !.op = "resolve", !.name = name,
                    !.resolved = _resolve_creator(name)]
    /\ UNCHANGED <<storage, dialogs, _open_multi_dialogs, widget, patch,
                   opens, quiet>>

InitResolve ==
    /\ storage = NoMultiple
    /\ dialogs \in Registries
    /\ _open_multi_dialogs = << >>
    /\ widget = [i \in Instances |-> NoWidget]
    /\ patch = [open |-> "patched", saved |-> "host", original |-> "host"]
    /\ opens = 0
    /\ quiet = TRUE
    /\ call = NoCall

NextResolve == \E name \in DialogNames : Resolve(name)

SpecResolve == InitResolve /\ [][NextResolve]_vars

(***************************************************************************)
(* Properties.                                                             *)
(***************************************************************************)
\* the argument list _open_patched passes on: its name, then its *args
PassedOn(c) == <<c.name>> \o c.args

\* C1: for a name whose resolved configuration flag is false, a call of the
\* patched open calls the saved original open exactly once, with the same
\* name and arguments, and returns what it returns (or raises what it
\* raises); it does not call a creator, and the list of extra instances is
\* the same after the call as before it.
C1_SingleInstanceDelegates ==
    [][(call'.op = "open" /\ ~should_be_multiple(call'.name)) =>
          /\ call'.original = <<PassedOn(call')>>
          /\ call'.ret = call'.origRet
          /\ call'.exc = call'.origExc
          /\ call'.creator = << >>
          /\ _open_multi_dialogs' = _open_multi_dialogs]_vars

\* C1, its case: the name About, whose flag is false on the first run, is
\* opened while an extra instance is tracked
C1_Witness ==
    /\ call.op = "open"
    /\ call.name = "About"
    /\ ~call.flag
    /\ call.path = "single"
    /\ call.original = << <<"About", "card">> >>
    /\ Len(_open_multi_dialogs) > 0

C3_RegistryUntouched ==
    [][(\/ call'.op = "open" /\ call'.path = "multi"
        \/ call'.op \in {"close", "destroyed"}) =>
          /\ DOMAIN dialogs' = DOMAIN dialogs
          /\ \A n \in DOMAIN dialogs :
                /\ CachedInstance(dialogs'[n]) = CachedInstance(dialogs[n])
                /\ CachedCreator(dialogs'[n]) = CachedCreator(dialogs[n])]_vars

\* C3, its case: an extra Browser is opened while the host holds its own
\* single Browser instance in the registry
C3_Witness ==
    /\ call.op = "open"
    /\ call.path = "multi"
    /\ call.exc = ""
    /\ call.name = "Browser"
    /\ CachedInstance(dialogs["Browser"]) = HostInstance("Browser")
    /\ Contains(_open_multi_dialogs, call.ret)

\* C4: once the close of an extra instance is called, or its destroyed signal
\* fires, the instance is no longer in the list.
C4_GoneAfterCloseOrDestroyed ==
    call.op \in {"close", "destroyed"} =>
        ~Contains(_open_multi_dialogs, call.inst)

\* C5: an instance is added to the list once: it never occurs in the list
\* more than once (and so one removal, by the first close or destroyed
\* signal, takes it out for good).
C5_TrackedOnce ==
    \A i \in Instances : Occurrences(_open_multi_dialogs, i) <= 1

\* C6: the list holds exactly the extra instances that are currently open: an
\* instance stays in the list as long as its window is open, also when a call
\* of its close did not close it, and no closed or destroyed instance is in
\* the list.
C6_TrackedIsOpen ==
    \A i \in Instances :
        widget[i].cls # None =>
            (Contains(_open_multi_dialogs, i) <=> widget[i].status = "open")

\* C7: should_be_multiple(name) returns the flag stored for the name when the
\* stored map has an entry for it, otherwise the map's "default" flag, and
\* true when the map has no "default" entry either; an entry for the name
\* takes precedence over the default.  (After the lookup the store holds the
\* map the lookup read: the stored one, or the defaults it set up.)
C7_FlagOfName ==
    call.op = "open" =>
        LET m == storage.multiple
        IN  /\ storage.present
            /\ call.name \in DOMAIN m => call.flag = (m[call.name] \in {"true", "1"})
            /\ call.name \notin DOMAIN m /\ "default" \in DOMAIN m =>
                   call.flag = (m["default"] \in {"true", "1"})
            /\ call.name \notin DOMAIN m /\ "default" \notin DOMAIN m =>
                   call.flag = TRUE

\* C7, its case: a stored map whose entry for the name differs from its
\* default
C7_Witness ==
    /\ call.op = "open"
    /\ call.hadMap
    /\ call.name = "Browser"
    /\ "Browser" \in DOMAIN storage.multiple
    /\ "default" \in DOMAIN storage.multiple
    /\ storage.multiple["Browser"] = "false"
    /\ storage.multiple["default"] = "true"
    /\ ~call.flag

\* C8: a lookup that finds no map in the store writes the defaults (default
\* true, About false, Preferences false); a lookup that finds a map never
\* writes and changes no stored entry; so the defaults are written at most
\* once: only by a lookup that finds no map, after which there is one.
C8_LazyInit ==
    [][call'.op = "open" =>
          /\ ~storage.present =>
                /\ call'.wrote
                /\ storage'.present
                /\ DOMAIN storage'.multiple = {"default", "About", "Preferences"}
                /\ storage'.multiple["default"] = "true"
                /\ storage'.multiple["About"] = "false"
                /\ storage'.multiple["Preferences"] = "false"
          /\ storage.present => ~call'.wrote /\ storage' = storage]_vars

\* C8, its case: a lookup after the first one finds the defaults stored and
\* does not write
C8_Witness ==
    /\ call.op = "open"
    /\ call.hadMap
    /\ ~call.wrote
    /\ storage.present
    /\ "Preferences" \in DOMAIN storage.multiple

\* C9: when the host opens a dialog as dialogs.open(name, args), the name
\* the patch looks up in the config and in the registry is the dialog name
\* the caller supplied, so a registered name whose flag is true reaches the
\* multi-instance path.
C9_BoundOpenUsesCallerName ==
    (call.op = "open" /\ call.bound) =>
        /\ call.name = call.caller
        /\ (should_be_multiple(call.caller) /\ _resolve_creator(call.caller) # None)
               => call.path = "multi"

\* C10: when the flag of a name is true but no creator can be resolved for it
\* (the name is not registered, or its entry has an unexpected layout), the
\* patched open calls the original open once with the same arguments and
\* returns what it returns (or raises what it raises, and nothing else); no
\* creator is called and the list is unchanged.
C10_FallbackDelegates ==
    [][(/\ call'.op = "open"
        /\ should_be_multiple(call'.name)
        /\ _resolve_creator(call'.name) = None) =>
          /\ call'.original = <<PassedOn(call')>>
          /\ call'.ret = call'.origRet
          /\ call'.exc = call'.origExc
          /\ call'.creator = << >>
          /\ widget' = widget
          /\ _open_multi_dialogs' = _open_multi_dialogs]_vars

\* C10, its case: a name whose entry has a layout the lookup does not know is
\* opened with the flag on, while an extra instance is tracked
C10_Witness ==
    /\ call.op = "open"
    /\ call.name = "Broken"
    /\ call.flag
    /\ call.path = "fallback"
    /\ call.original = << <<"Broken", "mw">> >>
    /\ call.exc = call.origExc
    /\ Len(_open_multi_dialogs) > 0

\* C11: if connecting to the destroyed signal of an instance raises, or the
\* instance has no destroyed attribute, the multi-instance open still
\* completes: the instance is tracked and returned; and after a later call of
\* its close the instance is no longer in the list.
C11_CloseFallbackSuffices ==
    /\ (/\ call.op = "open"
        /\ call.path = "multi"
        /\ call.exc = ""
        /\ widget[call.ret].kind \in {"stub", "plain"}) =>
           /\ Contains(_open_multi_dialogs, call.ret)
           /\ widget[call.ret].handlers = 0
           /\ widget[call.ret].wrappers = 1
    /\ (/\ call.op = "close"
        /\ widget[call.inst].kind \in {"stub", "plain"}) =>
           ~Contains(_open_multi_dialogs, call.inst)

\* C12: _resolve_creator returns, for a tuple entry, its first element when
\* the tuple is non-empty and that element is callable, otherwise none; for a
\* non-tuple entry its callable creator attribute, else its callable
\* creator_func attribute, else none; and none when the name has no entry.
C12_ResolveCreator ==
    call.op = "resolve" =>
        LET name == call.name
            IsCallable(entry, attr) ==
                attr \in DOMAIN entry /\ entry[attr] \in Creators
        IN  IF name \notin DOMAIN dialogs
            THEN call.resolved = None
            ELSE IF dialogs[name].layout = "tuple"
            THEN IF dialogs[name].items # << >>
                    /\ Head(dialogs[name].items) \in Creators
                 THEN call.resolved = Head(dialogs[name].items)
                 ELSE call.resolved = None
            ELSE IF IsCallable(dialogs[name], "creator")
            THEN call.resolved = dialogs[name].creator
            ELSE IF IsCallable(dialogs[name], "creator_func")
            THEN call.resolved = dialogs[name].creator_func
            ELSE call.resolved = None

\* C12 happens: an entry whose creator and creator_func are two different
\* callables has been resolved, next to a name without an entry
C12_Witness ==
    /\ call.op = "resolve"
    /\ call.name = "Browser"
    /\ DOMAIN dialogs = {"Browser"}
    /\ dialogs["Browser"].layout = "object"
    /\ getattr(dialogs["Browser"], "creator") = "Browser"
    /\ getattr(dialogs["Browser"], "creator_func") = "About"
    /\ call.resolved = "Browser"

C14_WrappedOnce ==
    /\ \A i \in Instances : widget[i].wrappers <= 1
    /\ \A i \in Instances :
           (widget[i].cls # None /\ HasClose(widget[i].kind)) =>
               (widget[i].wrappers = 1 /\ widget[i].flagged)
    /\ call.op = "close" =>
           /\ call.original = <<call.args>>
           /\ call.result = call.origResult
           /\ call.exc = call.origExc

\* C14 happens: an instance that the creator returned twice (it is still in
\* the list after its close took one occurrence out) carries one wrapper, and
\* its close was called with an argument and returned the original's result
C14_Witness ==
    /\ call.op = "close"
    /\ call.args = <<"event">>
    /\ call.result = "True"
    /\ widget[call.inst].wrappers = 1
    /\ Contains(_open_multi_dialogs, call.inst)

\* C15: a close or a destroyed signal of one instance removes only that
\* instance from the list: the other tracked instances stay, as often and in
\* the order they were, an occurrence of the instance itself goes when there
\* is one, and when the instance is not in the list the list is unchanged.
C15_RemovesOnlyThat ==
    [][call'.op \in {"close", "destroyed"} =>
          LET other(x) == x # call'.inst
          IN  /\ SelectSeq(_open_multi_dialogs', other)
                     = SelectSeq(_open_multi_dialogs, other)
              /\ Contains(_open_multi_dialogs, call'.inst) =>
                     Occurrences(_open_multi_dialogs', call'.inst)
                         < Occurrences(_open_multi_dialogs, call'.inst)
              /\ ~Contains(_open_multi_dialogs, call'.inst) =>
                     _open_multi_dialogs' = _open_multi_dialogs]_vars

\* C15 happens: one instance was closed or destroyed and is gone from the
\* list while another one is still tracked
C15_Witness ==
    /\ call.op \in {"close", "destroyed"}
    /\ ~Contains(_open_multi_dialogs, call.inst)
    /\ widget[call.inst].status \in {"closed", "destroyed"}
    /\ \E j \in Instances :
           /\ j # call.inst
           /\ Contains(_open_multi_dialogs, j)

=============================================================================
